---- MODULE Spec2Model ----
(***************************************************************************)
(* A model of aiorobinhood.RobinhoodClient (src/aiorobinhood/client.py):   *)
(* the OAuth/session lifecycle (login, logout, refresh, dump, load), the   *)
(* transport lifecycle (__aenter__/__aexit__), the decorators that guard   *)
(* every endpoint and four representative endpoints: get_account, the      *)
(* mutually exclusive get_quotes, the paginated get_positions and          *)
(* add_to_watchlist, which expects status 201.                             *)
(*                                                                         *)
(* A coroutine runs atomically between two awaits, so every action is the  *)
(* code between two suspension points: a "call" action runs an operation   *)
(* from its entry to the first request it awaits (or to its end), and a    *)
(* "response" action runs it from the answer of that request to the next   *)
(* request (or to its end).  The server and the network are adversarial:   *)
(* any status with any body, or a transport fault.                         *)
(*                                                                         *)
(* Strings are sequences of chunks, so that f"Bearer {tok}" and URL        *)
(* joining are concatenations; None is the empty sequence.                 *)
(***************************************************************************)
EXTENDS Integers, Sequences, FiniteSets, TLC

\* ------------------------------------------------------------------ bounds
\* The server hands out at most MaxGrants token pairs.
MaxGrants == 2
\* A single login() call sends at most MaxReqs requests.
MaxReqs == 4
\* A single login() call asks its caller for at most MaxPrompts codes.
MaxPrompts == 1
\* Largest remaining_attempts a challenge carries.
MaxAttempts == 1
\* Largest page budget a caller passes to a list endpoint.
MaxPages == 2
\* A single list call sends at most MaxPageReqs requests.
MaxPageReqs == 3
\* The lookup of one order helper sends at most MaxLookups requests.
MaxLookups == 2
\* login() frames nest at most MaxDepth deep below the first one.
MaxDepth == 2
\* Largest remaining_attempts of a challenge of the server that counts down.
MaxCountdown == 3

\* --------------------------------------------------------------- constants
OK == 200
CREATED == 201
BAD_REQUEST == 400

None == <<>>
\* an aiohttp.ClientSession that is open
OPEN == <<"open">>
EmptyStr == <<"">>

Tasks == {"t1", "t2"}
\* The caller of the sequential specification.
SeqTasks == {"t1"}

ChallengeTypes == {"sms", "email"}
SMS == "sms"
ChallengeIds == {<<"c1">>, <<"c2">>}
Codes == {<<"111">>, <<"222">>}
Accounts == {<<"A1">>, <<"A2">>}
DeviceTokens == {<<"device-1">>}
\* What uuid4() returns at a later construction.
LaterDeviceTokens == {<<"device-2">>}
\* The results a page of a list endpoint carries.
PageItems == {<<"p1">>, <<"p2", "p1">>}

\* -------------------------------------------------------------------- urls
BASE == <<"https://api.robinhood.com">>
OAUTH == BASE \o <<"oauth2/">>
LOGIN == OAUTH \o <<"token/">>
LOGOUT == OAUTH \o <<"revoke_token/">>
CHALLENGE == BASE \o <<"challenge/">>
ACCOUNTS == BASE \o <<"accounts/">>
QUOTES == BASE \o <<"quotes/">>
POSITIONS == BASE \o <<"positions/">>
WATCHLISTS == BASE \o <<"watchlists/">>
INSTRUMENTS == BASE \o <<"instruments/">>
ORDERS == BASE \o <<"orders/">>
\* A next link inside the origin, and a URL of another origin.
NEXT == BASE \o <<"next/">>
FOREIGN == <<"https://foobar.com">>

\* urls.CHALLENGE / response["challenge"]["id"] / "respond/"
RespondUrl(cid) == CHALLENGE \o cid \o <<"respond/">>

\* ------------------------------------------------------------------ tokens
\* The raw tokens of the server's g-th grant.
RawAccess(g) == <<"access-", ToString(g)>>
RawRefresh(g) == <<"refresh-", ToString(g)>>

Bearer_Raw(tok) == tok
\* f"Bearer {response['access_token']}"
Bearer(tok) == <<"Bearer ">> \o tok

\* --------------------------------------------------------------- variables
VARIABLES
  session,        \* self._session: None or OPEN
  access_token,   \* self._access_token
  refresh_token,  \* self._refresh_token
  account_url,    \* self._account_url
  account_num,    \* self._account_num
  device_token,   \* self._device_token
  store,          \* the pickled dict of self._session_file
  nextGrant,      \* the server: number of the next token pair it grants
  call            \* per task: the coroutine in progress and its history

vars == <<session, access_token, refresh_token, account_url, account_num,
          device_token, store, nextGrant, call>>

\* ------------------------------------------------------- server responses
EmptyBody ==
  [keys |-> {}, cid |-> None, remaining_attempts |-> 0, id |-> None,
   access_token |-> None, refresh_token |-> None,
   url |-> None, account_number |-> None,
   items |-> <<>>, next |-> None]

\* {"challenge": {"id": cid, "remaining_attempts": n}}
ChallengeBody(cid, n) ==
  [EmptyBody EXCEPT !.keys = {"challenge"}, !.cid = cid, !.remaining_attempts = n]
\* {"id": cid}
PassedBody(cid) == [EmptyBody EXCEPT !.keys = {"id"}, !.id = cid]
\* {"mfa_required": true, "mfa_type": "sms"}
MfaBody == [EmptyBody EXCEPT !.keys = {"mfa_required", "mfa_type"}]
\* {"mfa_required": true}
MfaNoTypeBody == [EmptyBody EXCEPT !.keys = {"mfa_required"}]
\* {"access_token": ..., "refresh_token": ...} and its two truncations
TokenBody(g) ==
  [EmptyBody EXCEPT !.keys = {"access_token", "refresh_token"},
                    !.access_token = RawAccess(g), !.refresh_token = RawRefresh(g)]
OnlyAccessBody(g) ==
  [EmptyBody EXCEPT !.keys = {"access_token"}, !.access_token = RawAccess(g)]
OnlyRefreshBody(g) ==
  [EmptyBody EXCEPT !.keys = {"refresh_token"}, !.refresh_token = RawRefresh(g)]
\* {"results": [{"url": ..., "account_number": a}]}
AccountBody(a) ==
  [EmptyBody EXCEPT !.keys = {"results"}, !.url = ACCOUNTS \o a, !.account_number = a]
\* {"results": []}
NoResultsBody == [EmptyBody EXCEPT !.keys = {"results"}]

\* {"results": items, "next": next} and the same without "next"
PageBody(items, next) ==
  [EmptyBody EXCEPT !.keys = {"results", "next"}, !.items = items, !.next = next]
NoNextBody(items) == [EmptyBody EXCEPT !.keys = {"results"}, !.items = items]
\* {"id": "ID"}, the answer to an order that was placed
OrderBody == [EmptyBody EXCEPT !.keys = {"id"}, !.id = <<"ID">>]

GrantBodies(g) == {TokenBody(g), OnlyAccessBody(g), OnlyRefreshBody(g)}
\* The bodies the code of each endpoint's caller tells apart; EmptyBody
\* stands for every body that lacks all the fields the caller reads.
AuthBodies ==
  {EmptyBody, MfaBody, MfaNoTypeBody}
    \cup {ChallengeBody(c, n) : c \in ChallengeIds, n \in 0..MaxAttempts}
    \cup {PassedBody(c) : c \in ChallengeIds}
AccountBodies == {EmptyBody, NoResultsBody} \cup {AccountBody(a) : a \in Accounts}
QuoteBodies == {EmptyBody, NoResultsBody}
RevokeBodies == {EmptyBody}
PageBodies ==
  {EmptyBody, NoNextBody(<<"p1">>)}
    \cup {PageBody(i, n) : i \in PageItems, n \in {None, NEXT, FOREIGN}}

IsGrant(body) == body.keys \cap {"access_token", "refresh_token"} # {}

\* The two classes of the except clauses: aiohttp.ClientError (connection
\* refused, TLS verification failure, ...) and asyncio.TimeoutError.
Fault == [fault |-> TRUE, cause |-> "ClientError", status |-> 0, body |-> EmptyBody]
Timeout == [fault |-> TRUE, cause |-> "TimeoutError", status |-> 0, body |-> EmptyBody]
Faults == {Fault, Timeout}
NoResp == [fault |-> FALSE, cause |-> "", status |-> 0, body |-> EmptyBody]
Answer(status, body) ==
  [fault |-> FALSE, cause |-> "", status |-> status, body |-> body]

\* What the network can produce for a request: a transport fault (timeout,
\* connection refused, TLS failure), a success status with
\* any of the bodies, or an error status; the body of an error answer is read
\* for its challenge only, so the error bodies are the challenges, the empty
\* body and a body with tokens.  A body holding tokens is the server's next
\* grant.
Replies(bodies, granting) ==
  Faults
    \cup {Answer(OK, b) : b \in bodies}
    \cup {Answer(BAD_REQUEST, b) : b \in {x \in bodies : x.keys \subseteq {"challenge"}}}
    \cup (IF granting /\ nextGrant <= MaxGrants
            THEN {Answer(OK, b) : b \in GrantBodies(nextGrant)}
                   \cup {Answer(BAD_REQUEST, TokenBody(nextGrant))}
            ELSE {})

\* The answers to a list request and to a watchlist POST.
PageReplies ==
  Faults \cup {Answer(OK, b) : b \in PageBodies} \cup {Answer(BAD_REQUEST, EmptyBody)}
WatchlistReplies ==
  Faults \cup {Answer(s, EmptyBody) : s \in {OK, CREATED, BAD_REQUEST}}
\* The answers to the quote lookup of an order helper and to an order POST.
QuoteReplies ==
  Faults \cup {Answer(OK, b) : b \in {EmptyBody, NoResultsBody, NoNextBody(<<"p1">>)}}
    \cup {Answer(BAD_REQUEST, EmptyBody)}
OrderReplies ==
  Faults \cup {Answer(s, OrderBody) : s \in {OK, CREATED}}
    \cup {Answer(s, EmptyBody) : s \in {CREATED, BAD_REQUEST}}

\* ---------------------------------------------------------------- requests
NoReq ==
  [method |-> "", url |-> None, auth |-> None, chal |-> None, mfa_code |-> None,
   challenge_type |-> "", device_token |-> None, grant_type |-> "",
   token |-> None, response |-> None, account |-> None]

\* ------------------------------------------------------------ the coroutine
Snapshot ==
  [session |-> session,
   access_token |-> access_token, refresh_token |-> refresh_token,
   account_url |-> account_url, account_num |-> account_num, store |-> store]

NoSnapshot ==
  [session |-> None, access_token |-> None, refresh_token |-> None,
   account_url |-> None, account_num |-> None,
   store |-> [device_token |-> None, access_token |-> None,
              refresh_token |-> None]]

NoKwargs == [challenge_id |-> None, mfa_code |-> None]

\* The pages parameter of a list endpoint: None, or a number of pages.
NoPages == [none |-> TRUE, n |-> 0]
Pages(n) == [none |-> FALSE, n |-> n]
PageBudgets == {NoPages} \cup {Pages(n) : n \in 0..MaxPages}

\* What a raised error carries (exceptions.py): method and url for
\* ClientRequestError, also status and response for ClientAPIError, and the
\* __cause__ set by "raise ... from e".
NoErr == [method |-> "", url |-> None, status |-> 0, body |-> EmptyBody, cause |-> ""]
ClientRequestError_NoCause(method, url, cause) ==
  [NoErr EXCEPT !.method = method, !.url = url]
\* raise ClientRequestError(method, url) from e
ClientRequestError(method, url, cause) ==
  [NoErr EXCEPT !.method = method, !.url = url, !.cause = cause]
ClientAPIError_NoBody(method, url, status, body) ==
  [NoErr EXCEPT !.method = method, !.url = url, !.status = status]
\* raise ClientAPIError(resp.method, resp.url, resp.status, response)
ClientAPIError(method, url, status, body) ==
  [NoErr EXCEPT !.method = method, !.url = url, !.status = status, !.body = body]

IdleCall ==
  [op |-> "none", pc |-> "idle", result |-> "none", err |-> NoErr,
   challenge_type |-> SMS, orig_type |-> SMS, kwargs |-> NoKwargs,
   url |-> None, reqs |-> <<>>, path |-> <<>>, last |-> NoResp,
   inputs |-> <<>>, ret |-> None,
   pages |-> NoPages, pages0 |-> NoPages, log |-> <<>>,
   depth |-> 0, first |-> 0, seq |-> 0, closed_at |-> -1, race |-> 0,
   lim |-> [reqs |-> MaxReqs, prompts |-> MaxPrompts, depth |-> MaxReqs,
            window |-> 0],
   args |-> [symbols |-> "absent", instruments |-> "absent"],
   pre |-> NoSnapshot,
   prev |-> [op |-> "none", result |-> "none", pre |-> NoSnapshot]]

\* A fresh coroutine of operation op, with the client's state on entry.
NewCall(op) == [IdleCall EXCEPT !.op = op, !.pc = "running", !.pre = Snapshot]

Idle(t) == call[t].pc \in {"idle", "done"}
AllIdle == \A t \in Tasks : Idle(t)

\* The coroutine ends by raising err / by returning.
Raise(t, c, err) ==
  call' = [call EXCEPT ![t] = [c EXCEPT !.pc = "done", !.result = err]]
\* The coroutine ends with ClientAPIError for the answer resp to its latest
\* request (resp.method and resp.url are that request's).
RaisedAPI(c, resp) ==
  LET r == c.reqs[Len(c.reqs)] IN
    [c EXCEPT !.pc = "done", !.result = "APIError",
              !.err = ClientAPIError(r.method, r.url, resp.status, resp.body)]
RaiseAPI(t, c, resp) == call' = [call EXCEPT ![t] = RaisedAPI(c, resp)]
\* The coroutine ends with ClientRequestError(method, url) from the fault resp.
RaisedRequest(c, method, url, resp) ==
  [c EXCEPT !.pc = "done", !.result = "RequestError",
            !.err = ClientRequestError(method, url, resp.cause)]
RaiseRequest(t, c, method, url, resp) ==
  call' = [call EXCEPT ![t] = RaisedRequest(c, method, url, resp)]
Returned(c) == [c EXCEPT !.pc = "done", !.result = "ok"]
Return(t, c) == call' = [call EXCEPT ![t] = Returned(c)]
\* The history a call's record keeps: all of it, or its latest
\* c.lim.window entries.
Keep(c, s) ==
  IF c.lim.window = 0 \/ Len(s) <= c.lim.window THEN s
  ELSE SubSeq(s, Len(s) - c.lim.window + 1, Len(s))
\* The coroutine hands req to the transport and suspends at pc (seq is the
\* parity of the number of requests it has sent).
Sent(c, req, pc) ==
  [c EXCEPT !.pc = pc, !.seq = (@ + 1) % 2, !.reqs = Keep(c, Append(@, req))]
Send(t, c, req, pc) == call' = [call EXCEPT ![t] = Sent(c, req, pc)]

\* The coroutines of the other tasks seen from task t's logout(): the record
\* of a call that is outstanding remembers whether a logout() began while it
\* was waiting (race = 1) and whether that logout() then succeeded while it
\* was still waiting (race = 2); a logout() that fails is forgotten.
Overlapping(t, from, to) ==
  [u \in Tasks |->
     IF u # t /\ ~Idle(u) /\ call[u].race = from
       THEN [call[u] EXCEPT !.race = to]
       ELSE call[u]]

\* -------------------------------------------------------------- decorators
\* self._session.get(...) / self._session.post(...) inside a method's loop:
\* TRUE when self._session has become None since the decorator looked at it,
\* and the attribute lookup raises AttributeError.
NoSession(s) == s = None

check_session_AlwaysOpen == FALSE
\* decorators.check_session: TRUE when it raises ClientUninitializedError
check_session == session = None

check_tokens_AccessOnly(at, rt) == at = None
\* decorators.check_tokens: TRUE when it raises ClientUnauthenticatedError
check_tokens(at, rt) == at = None \/ rt = None

\* ------------------------------------------------------------- construction
\* RobinhoodClient.__init__ on an empty session file, with or without an
\* injected session.
\* __init__ lines 46-54: the device token of a client built on the session
\* file holding data; fresh is what uuid4() returns when the file is empty.
DeviceOf_Fresh(data, fresh) == fresh
DeviceOf(data, fresh) ==
  IF data.device_token = None THEN fresh ELSE data.device_token
StoreInit_Always(data, fresh) ==
  [device_token |-> fresh, access_token |-> None, refresh_token |-> None]
\* ... and the session file after it.
StoreInit(data, fresh) ==
  IF data.device_token = None
    THEN [device_token |-> fresh, access_token |-> None, refresh_token |-> None]
    ELSE data

\* The session file the first client is built on: empty (pickle.load raises
\* EOFError), or left by an earlier client that never dumped.
EmptyFile == [device_token |-> None, access_token |-> None, refresh_token |-> None]
InitialFiles ==
  {EmptyFile} \cup {[EmptyFile EXCEPT !.device_token = d] : d \in DeviceTokens}

\* The state after the first client was constructed (lines 38-54); the
\* record of the constructor call remembers the file it found.
Init ==
  \E data \in InitialFiles, fresh \in DeviceTokens :
    /\ session \in {None, OPEN}
    /\ access_token = None
    /\ refresh_token = None
    /\ account_url = None
    /\ account_num = None
    /\ device_token = DeviceOf(data, fresh)
    /\ store = StoreInit(data, fresh)
    /\ nextGrant = 1
    /\ call = [t \in Tasks |->
                 IF t \in SeqTasks
                   THEN [IdleCall EXCEPT !.op = "__init__", !.pc = "done",
                                         !.result = "ok", !.pre.store = data]
                   ELSE IdleCall]

\* RobinhoodClient.__init__ of a later client on the same session file, with
\* or without an injected session; it replaces the client at hand.
Construct(t) ==
  /\ \E s \in {None, OPEN}, fresh \in LaterDeviceTokens :
       /\ session' = s
       /\ device_token' = DeviceOf(store, fresh)
       /\ store' = StoreInit(store, fresh)
  /\ access_token' = None
  /\ refresh_token' = None
  /\ account_url' = None
  /\ account_num' = None
  /\ Return(t, NewCall("__init__"))
  /\ UNCHANGED nextGrant

\* --------------------------------------------------------------- lifecycle
\* lines 57-58: the session after __aenter__
AEnterSession(s) == IF s = None THEN OPEN ELSE s
AExitSession_Keep(s) == s
\* lines 70-71: the session after __aexit__
AExitSession(s) == None

\* RobinhoodClient.__aenter__
AEnter(t) ==
  /\ session' = AEnterSession(session)
  /\ Return(t, NewCall("__aenter__"))
  /\ UNCHANGED <<access_token, refresh_token, account_url, account_num,
                 device_token, store, nextGrant>>

\* The coroutines after task t's __aexit__ returned: the record of a call
\* that is outstanding remembers how many requests it had sent when the
\* session was closed under it (-1: it was not).
Closed(t) ==
  [u \in Tasks |->
     IF u = t THEN [NewCall("__aexit__") EXCEPT !.pc = "done", !.result = "ok"]
     ELSE IF Idle(u) THEN call[u]
     ELSE [call[u] EXCEPT !.closed_at = Len(call[u].reqs)]]

\* RobinhoodClient.__aexit__: it looks at self._session only, not at the
\* calls in progress.
AExit(t) ==
  /\ IF check_session
       THEN /\ Raise(t, NewCall("__aexit__"), "UninitializedError")
            /\ UNCHANGED session
       ELSE /\ session' = AExitSession(session)
            /\ call' = Closed(t)
  /\ UNCHANGED <<access_token, refresh_token, account_url, account_num,
                 device_token, store, nextGrant>>

\* ------------------------------------------------------------ bookkeeping
\* How login() reads an answer (the order of its tests, lines 123-149).
Kind(resp) ==
  IF resp.fault THEN "fault"
  ELSE IF "challenge" \in resp.body.keys /\ resp.body.remaining_attempts > 0
    THEN "challenge"
  ELSE IF resp.status # OK THEN "error"
  ELSE IF "id" \in resp.body.keys THEN "passed"
  ELSE IF "mfa_required" \in resp.body.keys THEN "mfa"
  ELSE IF {"access_token", "refresh_token"} \subseteq resp.body.keys THEN "tokens"
  ELSE IF "results" \in resp.body.keys /\ resp.body.account_number # None
    THEN "account"
  ELSE "malformed"

\* The coroutine c after its awaited request was answered by resp.
Receive(c, resp) ==
  [c EXCEPT !.last = resp, !.path = Keep(c, Append(@, Kind(resp)))]

\* The server has used up a grant when it answered with tokens.
Served(resp) ==
  nextGrant' = (IF ~resp.fault /\ IsGrant(resp.body) THEN nextGrant + 1 ELSE nextGrant)

GetReq(url, auth) == [NoReq EXCEPT !.method = "GET", !.url = url, !.auth = auth]

\* ------------------------------------------------------------- get_account
\* get_account as decorated (check_tokens outermost, then check_session),
\* up to its request; at and rt are the tokens the client holds on entry.
\* (c.lim bounds the requests and the prompts of one call.)
GetAccountEnter(t, c, at, rt) ==
  IF check_tokens(at, rt) THEN Raise(t, c, "UnauthenticatedError")
  ELSE IF check_session THEN Raise(t, c, "UninitializedError")
  ELSE Len(c.reqs) < c.lim.reqs /\ Send(t, c, GetReq(ACCOUNTS, at), "await_account")

\* RobinhoodClient.get_account called by the user
GetAccountCall(t) ==
  /\ GetAccountEnter(t, NewCall("get_account"), access_token, refresh_token)
  /\ UNCHANGED <<session, access_token, refresh_token, account_url, account_num,
                 device_token, store, nextGrant>>

AccountAssign_UrlOnly(body) == <<body.url, account_num>>
\* lines 155-156 and 254-255: account["url"], account["account_number"]
AccountAssign(body) == <<body.url, body.account_number>>

\* The answer to get_account's request, and what its caller (the user,
\* login or load) does with the account.
AccountResponse(t, resp) ==
  /\ call[t].pc = "await_account"
  /\ Served(resp)
  /\ LET c == Receive(call[t], resp) IN
       IF resp.fault THEN
         /\ RaiseRequest(t, c, "GET", ACCOUNTS, resp)
         /\ UNCHANGED <<account_url, account_num>>
       ELSE IF resp.status # OK THEN
         /\ RaiseAPI(t, c, resp)
         /\ UNCHANGED <<account_url, account_num>>
       ELSE IF "results" \notin resp.body.keys THEN
         /\ Raise(t, c, "KeyError")
         /\ UNCHANGED <<account_url, account_num>>
       ELSE IF resp.body.account_number = None THEN
         /\ Raise(t, c, "IndexError")
         /\ UNCHANGED <<account_url, account_num>>
       ELSE IF c.op = "get_account" THEN
         /\ Return(t, [c EXCEPT !.ret = resp.body.account_number])
         /\ UNCHANGED <<account_url, account_num>>
       ELSE
         /\ account_url' = AccountAssign(resp.body)[1]
         /\ account_num' = AccountAssign(resp.body)[2]
         /\ Return(t, c)
  /\ UNCHANGED <<session, access_token, refresh_token, device_token, store>>

\* ------------------------------------------------------------------ logout
LogoutCleared_Keep(at, rt) == <<at, rt>>
\* lines 181-182: the tokens after a revocation that succeeded
LogoutCleared(at, rt) == <<None, None>>

\* RobinhoodClient.logout up to its request
LogoutCall(t) ==
  /\ LET c == NewCall("logout") IN
       IF check_tokens(access_token, refresh_token)
         THEN Raise(t, c, "UnauthenticatedError")
       ELSE IF check_session THEN Raise(t, c, "UninitializedError")
       ELSE call' = [Overlapping(t, 0, 1) EXCEPT ![t] =
                       Sent(c, [NoReq EXCEPT !.method = "POST", !.url = LOGOUT,
                                             !.token = refresh_token],
                            "await_logout")]
  /\ UNCHANGED <<session, access_token, refresh_token, account_url, account_num,
                 device_token, store, nextGrant>>

\* RobinhoodClient.logout from the answer on
LogoutResponse(t, resp) ==
  /\ call[t].pc = "await_logout"
  /\ Served(resp)
  /\ LET c == Receive(call[t], resp) IN
       IF resp.fault THEN
         /\ call' = [Overlapping(t, 1, 0) EXCEPT ![t] =
                       RaisedRequest(c, "POST", LOGOUT, resp)]
         /\ UNCHANGED <<access_token, refresh_token>>
       ELSE IF resp.status # OK THEN
         /\ call' = [Overlapping(t, 1, 0) EXCEPT ![t] = RaisedAPI(c, resp)]
         /\ UNCHANGED <<access_token, refresh_token>>
       ELSE
         /\ access_token' = LogoutCleared(access_token, refresh_token)[1]
         /\ refresh_token' = LogoutCleared(access_token, refresh_token)[2]
         /\ call' = [Overlapping(t, 1, 2) EXCEPT ![t] = Returned(c)]
  /\ UNCHANGED <<session, account_url, account_num, device_token, store>>

\* ----------------------------------------------------------------- refresh
\* lines 218-219: the two assignments; the second is not reached when the
\* first raises KeyError, and the first has happened when the second raises.
RefreshAssign(body, at, rt) ==
  IF "access_token" \notin body.keys
    THEN [access_token |-> at, refresh_token |-> rt, raised |-> TRUE]
  ELSE IF "refresh_token" \notin body.keys
    THEN [access_token |-> Bearer(body.access_token), refresh_token |-> rt,
          raised |-> TRUE]
  ELSE [access_token |-> Bearer(body.access_token),
        refresh_token |-> body.refresh_token, raised |-> FALSE]

RefreshFailed_Never(resp) == FALSE
\* line 215: the status test of refresh, ahead of the two assignments
RefreshFailed(resp) == resp.status # OK

\* RobinhoodClient.refresh up to its request
RefreshCall(t) ==
  /\ LET c == NewCall("refresh") IN
       IF check_tokens(access_token, refresh_token)
         THEN Raise(t, c, "UnauthenticatedError")
       ELSE IF check_session THEN Raise(t, c, "UninitializedError")
       ELSE Send(t, c, [NoReq EXCEPT !.method = "POST", !.url = LOGIN,
                                     !.grant_type = "refresh_token",
                                     !.token = refresh_token], "await_refresh")
  /\ UNCHANGED <<session, access_token, refresh_token, account_url, account_num,
                 device_token, store, nextGrant>>

\* RobinhoodClient.refresh from the answer on
RefreshResponse(t, resp) ==
  /\ call[t].pc = "await_refresh"
  /\ Served(resp)
  /\ LET c == Receive(call[t], resp) IN
       IF resp.fault THEN
         /\ RaiseRequest(t, c, "POST", LOGIN, resp)
         /\ UNCHANGED <<access_token, refresh_token>>
       ELSE IF RefreshFailed(resp) THEN
         /\ RaiseAPI(t, c, resp)
         /\ UNCHANGED <<access_token, refresh_token>>
       ELSE
         LET a == RefreshAssign(resp.body, access_token, refresh_token) IN
           /\ access_token' = a.access_token
           /\ refresh_token' = a.refresh_token
           /\ IF a.raised THEN Raise(t, c, "KeyError") ELSE Return(t, c)
  /\ UNCHANGED <<session, account_url, account_num, device_token, store>>

\* ------------------------------------------------------------- dump, load
\* lines 231-236: the pickled dict after dump()
Dumped(data, at, rt) == [data EXCEPT !.access_token = at, !.refresh_token = rt]

\* RobinhoodClient.dump
Dump(t) ==
  /\ IF check_tokens(access_token, refresh_token)
       THEN /\ Raise(t, NewCall("dump"), "UnauthenticatedError")
            /\ UNCHANGED store
       ELSE /\ store' = Dumped(store, access_token, refresh_token)
            /\ Return(t, NewCall("dump"))
  /\ UNCHANGED <<session, access_token, refresh_token, account_url, account_num,
                 device_token, nextGrant>>

Loaded_Swapped(data) == <<data.refresh_token, data.access_token>>
\* lines 249-250: data.get("access_token"), data.get("refresh_token")
Loaded(data) == <<data.access_token, data.refresh_token>>

\* RobinhoodClient.load up to get_account's request (the coroutine's record
\* remembers the call that ended just before it)
LoadCall(t) ==
  /\ access_token' = Loaded(store)[1]
  /\ refresh_token' = Loaded(store)[2]
  /\ GetAccountEnter(t, [NewCall("load") EXCEPT
                           !.prev = [op |-> call[t].op, result |-> call[t].result,
                                     pre |-> call[t].pre]],
                     access_token', refresh_token')
  /\ UNCHANGED <<session, account_url, account_num, device_token, store, nextGrant>>

\* ------------------------------------------------------------------- login
\* kwargs.get(key, default)
KwGet(v, default) == IF v = None THEN default ELSE v

\* lines 104-121: the password-grant POST of the current login() frame
LoginReq(c) ==
  [NoReq EXCEPT !.method = "POST", !.url = LOGIN,
                !.chal = KwGet(c.kwargs.challenge_id, EmptyStr),
                !.mfa_code = KwGet(c.kwargs.mfa_code, EmptyStr),
                !.challenge_type = c.challenge_type,
                !.device_token = device_token,
                !.grant_type = "password"]

\* lines 129-131: the POST answering a challenge with the caller's code
RespondReq(cid, code) ==
  [NoReq EXCEPT !.method = "POST", !.url = RespondUrl(cid), !.response = code]

\* lines 77-121: a login() frame, from check_session to its request; the
\* interpreter refuses a frame nested deeper than its recursion limit.
LoginEnter(t, c) ==
  IF c.depth > c.lim.depth THEN Raise(t, c, "RecursionError")
  ELSE IF check_session THEN Raise(t, c, "UninitializedError")
  ELSE Len(c.reqs) < c.lim.reqs
         /\ Send(t, [c EXCEPT !.url = LOGIN], LoginReq(c), "await_login")

ChallengeFrame_NoId(c, id) ==
  [c EXCEPT !.challenge_type = SMS, !.kwargs = NoKwargs, !.depth = @ + 1]
\* lines 138-140: login(username, password, expires_in, challenge_id=id);
\* challenge_type is not passed on and takes its default.
ChallengeFrame(c, id) ==
  [c EXCEPT !.challenge_type = SMS, !.depth = @ + 1,
            !.kwargs = [challenge_id |-> id, mfa_code |-> None]]

MfaFrame_NoCode(c, code) ==
  [c EXCEPT !.challenge_type = SMS, !.kwargs = NoKwargs, !.depth = @ + 1,
            !.inputs = Keep(c, Append(@, code))]
\* lines 143-146: login(username, password, expires_in, mfa_code=mfa_code)
MfaFrame(c, code) ==
  [c EXCEPT !.challenge_type = SMS, !.depth = @ + 1,
            !.kwargs = [challenge_id |-> None, mfa_code |-> code],
            !.inputs = Keep(c, Append(@, code))]

LoginAssign_Raw(body, at, rt) ==
  IF {"access_token", "refresh_token"} \subseteq body.keys
    THEN [access_token |-> body.access_token, refresh_token |-> body.refresh_token,
          raised |-> FALSE]
    ELSE [access_token |-> at, refresh_token |-> rt, raised |-> TRUE]
\* lines 148-149: the two assignments; the second is not reached when the
\* first raises KeyError, and the first has happened when the second raises.
LoginAssign(body, at, rt) ==
  IF "access_token" \notin body.keys
    THEN [access_token |-> at, refresh_token |-> rt, raised |-> TRUE]
  ELSE IF "refresh_token" \notin body.keys
    THEN [access_token |-> Bearer(body.access_token), refresh_token |-> rt,
          raised |-> TRUE]
  ELSE [access_token |-> Bearer(body.access_token),
        refresh_token |-> body.refresh_token, raised |-> FALSE]

LoginFailed_Never(resp) == FALSE
\* line 134: the status test that follows the challenge loop
LoginFailed(resp) == resp.status # OK

ChallengePending_Geq(body) ==
  "challenge" \in body.keys /\ body.remaining_attempts >= 0
\* lines 123-127: the test of the challenge loop
ChallengePending(body) ==
  "challenge" \in body.keys /\ body.remaining_attempts > 0

\* lines 123-154: login() from an answer (to the password grant or to a
\* respond call) to its next request or its end.
LoginAfter(t, c, resp) ==
  LET body == resp.body IN
  IF ChallengePending(body) THEN
    /\ \E code \in Codes :
         /\ Len(c.reqs) < c.lim.reqs
         /\ Len(c.inputs) < c.lim.prompts
         /\ LET asked == [c EXCEPT !.url = RespondUrl(body.cid),
                                   !.inputs = Keep(c, Append(@, code)),
                                   !.first = IF @ = 0 THEN body.remaining_attempts
                                             ELSE @]
            IN IF NoSession(session) THEN Raise(t, asked, "AttributeError")
               ELSE Send(t, asked, RespondReq(body.cid, code), "await_respond")
    /\ UNCHANGED <<access_token, refresh_token>>
  ELSE IF LoginFailed(resp) THEN
    /\ RaiseAPI(t, c, resp)
    /\ UNCHANGED <<access_token, refresh_token>>
  ELSE IF "id" \in body.keys THEN
    /\ LoginEnter(t, ChallengeFrame(c, body.id))
    /\ UNCHANGED <<access_token, refresh_token>>
  ELSE IF "mfa_required" \in body.keys THEN
    /\ IF "mfa_type" \notin body.keys
         THEN Raise(t, c, "KeyError")
         ELSE \E code \in Codes :
                /\ Len(c.inputs) < c.lim.prompts
                /\ LoginEnter(t, MfaFrame(c, code))
    /\ UNCHANGED <<access_token, refresh_token>>
  ELSE
    LET a == LoginAssign(body, access_token, refresh_token) IN
      /\ access_token' = a.access_token
      /\ refresh_token' = a.refresh_token
      /\ IF a.raised
           THEN Raise(t, c, "KeyError")
           ELSE GetAccountEnter(t, c, a.access_token, a.refresh_token)

\* RobinhoodClient.login called by the user; lim says what the record of the
\* call keeps and how far the call is followed.
LoginFrom(t, challenge_type, lim) ==
  /\ LoginEnter(t, [NewCall("login") EXCEPT !.challenge_type = challenge_type,
                                            !.orig_type = challenge_type,
                                            !.lim = lim])
  /\ UNCHANGED <<session, access_token, refresh_token, account_url, account_num,
                 device_token, store, nextGrant>>
LoginCall(t, challenge_type) == LoginFrom(t, challenge_type, IdleCall.lim)

\* The answer to a password-grant POST (line 122)
LoginResponse(t, resp) ==
  /\ call[t].pc = "await_login"
  /\ Served(resp)
  /\ IF resp.fault
       THEN /\ RaiseRequest(t, Receive(call[t], resp), "POST", call[t].url, resp)
            /\ UNCHANGED <<access_token, refresh_token>>
       ELSE LoginAfter(t, Receive(call[t], resp), resp)
  /\ UNCHANGED <<session, account_url, account_num, device_token, store>>

\* The answer to a respond POST (line 132)
RespondResponse(t, resp) ==
  /\ call[t].pc = "await_respond"
  /\ Served(resp)
  /\ IF resp.fault
       THEN /\ RaiseRequest(t, Receive(call[t], resp), "POST", call[t].url, resp)
            /\ UNCHANGED <<access_token, refresh_token>>
       ELSE LoginAfter(t, Receive(call[t], resp), resp)
  /\ UNCHANGED <<session, account_url, account_num, device_token, store>>

\* --------------------------------------------------------------- get_quotes
\* How a caller can pass one of the two alternative parameters.
\* (None passed positionally is the same call as the parameter left out.)
ArgForms == {"absent", "kw_none", "kw_val", "pos_val"}
IsKeyword(a) == a \in {"kw_none", "kw_val"}
IsPositional(a) == a = "pos_val"
NotNone(a) == a \in {"kw_val", "pos_val"}
\* The calls Python accepts: get_quotes(self, symbols=None, instruments=None);
\* the second parameter is positional only after a positional first one.
QuoteArgs ==
  {a \in [symbols : ArgForms, instruments : ArgForms] :
     IsPositional(a.instruments) => IsPositional(a.symbols)}

\* decorators.mutually_exclusive: TRUE when it raises ValueError;
\* it counts the alternatives present in kwargs.
mutually_exclusive(args) ==
  Cardinality({k \in DOMAIN args : IsKeyword(args[k])}) # 1

\* lines 717-720: the query of get_quotes; None when neither branch binds url
QuotesUrl(args) ==
  IF NotNone(args.symbols) THEN QUOTES \o <<"?symbols=">>
  ELSE IF NotNone(args.instruments) THEN QUOTES \o <<"?instruments=">>
  ELSE None

\* RobinhoodClient.get_quotes up to its request: mutually_exclusive is the
\* outermost decorator, then check_tokens, then check_session.
GetQuotesCall(t, args) ==
  /\ LET c == [NewCall("get_quotes") EXCEPT !.args = args] IN
       IF mutually_exclusive(args) THEN Raise(t, c, "ValueError")
       ELSE IF check_tokens(access_token, refresh_token)
         THEN Raise(t, c, "UnauthenticatedError")
       ELSE IF check_session THEN Raise(t, c, "UninitializedError")
       ELSE IF QuotesUrl(args) = None THEN Raise(t, c, "UnboundLocalError")
       ELSE Send(t, c, GetReq(QuotesUrl(args), access_token), "await_quotes")
  /\ UNCHANGED <<session, access_token, refresh_token, account_url, account_num,
                 device_token, store, nextGrant>>

\* RobinhoodClient.get_quotes from the answer on
QuotesResponse(t, resp) ==
  /\ call[t].pc = "await_quotes"
  /\ Served(resp)
  /\ LET c == Receive(call[t], resp) IN
       IF resp.fault THEN RaiseRequest(t, c, "GET", QuotesUrl(c.args), resp)
       ELSE IF resp.status # OK THEN RaiseAPI(t, c, resp)
       ELSE IF "results" \notin resp.body.keys THEN Raise(t, c, "KeyError")
       ELSE Return(t, c)
  /\ UNCHANGED <<session, access_token, refresh_token, account_url, account_num,
                 device_token, store>>

\* ------------------------------------------------------------ get_positions
\* line 403: urls.POSITIONS.with_query({"nonzero": "true"}), nonzero at its
\* default
PositionsUrl == POSITIONS \o <<"?nonzero=true">>

\* line 405: the test of the pagination loop
MorePages(url, p) == url # None /\ (p.none \/ p.n > 0)

PagesLeft_Same(p) == p
\* line 420: pages = pages and pages - 1
PagesLeft(p) == IF p.none \/ p.n = 0 THEN p ELSE Pages(p.n - 1)

\* line 418: results += response["results"]
Accumulate(results, items) == results \o items

\* lines 405-411, 424: the loop from its test to the next request or to the
\* return.  (MaxPageReqs bounds the requests of one call.)
PositionsLoop(t, c) ==
  IF MorePages(c.url, c.pages)
    THEN IF NoSession(session) THEN Raise(t, c, "AttributeError")
         ELSE Len(c.reqs) < MaxPageReqs
                /\ Send(t, c, GetReq(c.url, access_token), "await_positions")
    ELSE Return(t, c)

\* RobinhoodClient.get_positions up to its first request
GetPositionsCall(t, pages) ==
  /\ LET c == [NewCall("get_positions") EXCEPT
                 !.pages = pages, !.pages0 = pages, !.url = PositionsUrl] IN
       IF check_tokens(access_token, refresh_token)
         THEN Raise(t, c, "UnauthenticatedError")
       ELSE IF check_session THEN Raise(t, c, "UninitializedError")
       ELSE PositionsLoop(t, c)
  /\ UNCHANGED <<session, access_token, refresh_token, account_url, account_num,
                 device_token, store, nextGrant>>

\* RobinhoodClient.get_positions from the answer of a page on (lines 412-422)
PositionsResponse(t, resp) ==
  /\ call[t].pc = "await_positions"
  /\ LET c == [Receive(call[t], resp) EXCEPT !.log = Append(@, resp)]
         got == [c EXCEPT !.ret = Accumulate(@, resp.body.items)]
     IN
       IF resp.fault THEN RaiseRequest(t, c, "GET", c.url, resp)
       ELSE IF resp.status # OK THEN RaiseAPI(t, c, resp)
       ELSE IF "results" \notin resp.body.keys THEN Raise(t, c, "KeyError")
       ELSE IF "next" \notin resp.body.keys THEN Raise(t, got, "KeyError")
       ELSE PositionsLoop(t, [got EXCEPT !.url = resp.body.next,
                                         !.pages = PagesLeft(@)])
  /\ UNCHANGED <<session, access_token, refresh_token, account_url, account_num,
                 device_token, store, nextGrant>>

\* --------------------------------------------------------- add_to_watchlist
\* line 492: urls.WATCHLISTS / f"{watchlist}/", watchlist at its default
WatchlistUrl == WATCHLISTS \o <<"Default/">>

WatchlistAdded_Ok(resp) == resp.status = OK
\* line 501: the status add_to_watchlist expects
WatchlistAdded(resp) == resp.status = CREATED

\* RobinhoodClient.add_to_watchlist up to its request
AddToWatchlistCall(t) ==
  /\ LET c == [NewCall("add_to_watchlist") EXCEPT !.url = WatchlistUrl] IN
       IF check_tokens(access_token, refresh_token)
         THEN Raise(t, c, "UnauthenticatedError")
       ELSE IF check_session THEN Raise(t, c, "UninitializedError")
       ELSE Send(t, c, [NoReq EXCEPT !.method = "POST", !.url = WatchlistUrl,
                                     !.auth = access_token], "await_watchlist")
  /\ UNCHANGED <<session, access_token, refresh_token, account_url, account_num,
                 device_token, store, nextGrant>>

\* RobinhoodClient.add_to_watchlist from the answer on
WatchlistResponse(t, resp) ==
  /\ call[t].pc = "await_watchlist"
  /\ LET c == Receive(call[t], resp) IN
       IF resp.fault THEN RaiseRequest(t, c, "POST", WatchlistUrl, resp)
       ELSE IF ~WatchlistAdded(resp) THEN RaiseAPI(t, c, resp)
       ELSE Return(t, c)
  /\ UNCHANGED <<session, access_token, refresh_token, account_url, account_num,
                 device_token, store, nextGrant>>

\* ------------------------------------------------------------------ orders
\* lines 1003-1008: the POST of place_order; its json holds
\* "account": self._account_url
OrderReq_NoAccount(at, acct) ==
  [NoReq EXCEPT !.method = "POST", !.url = ORDERS, !.auth = at]
OrderReq(at, acct) ==
  [NoReq EXCEPT !.method = "POST", !.url = ORDERS, !.auth = at, !.account = acct]

\* place_order as decorated (check_tokens, then check_session), up to its
\* request
PlaceOrderEnter(t, c) ==
  IF check_tokens(access_token, refresh_token)
    THEN Raise(t, c, "UnauthenticatedError")
  ELSE IF check_session THEN Raise(t, c, "UninitializedError")
  ELSE Send(t, [c EXCEPT !.url = ORDERS], OrderReq(access_token, account_url),
            "await_order")

\* RobinhoodClient.place_order called by the user
PlaceOrderCall(t) ==
  /\ PlaceOrderEnter(t, NewCall("place_order"))
  /\ UNCHANGED <<session, access_token, refresh_token, account_url, account_num,
                 device_token, store, nextGrant>>

\* line 1010: the status place_order expects
OrderPlaced(resp) == resp.status = CREATED

\* RobinhoodClient.place_order from the answer on (lines 1009-1015); the
\* helper that called it returns what it returns.
OrderResponse(t, resp) ==
  /\ call[t].pc = "await_order"
  /\ LET c == Receive(call[t], resp) IN
       IF resp.fault THEN RaiseRequest(t, c, "POST", ORDERS, resp)
       ELSE IF ~OrderPlaced(resp) THEN RaiseAPI(t, c, resp)
       ELSE IF "id" \notin resp.body.keys THEN Raise(t, c, "KeyError")
       ELSE Return(t, [c EXCEPT !.ret = resp.body.id])
  /\ UNCHANGED <<session, access_token, refresh_token, account_url, account_num,
                 device_token, store, nextGrant>>

\* line 619: urls.INSTRUMENTS.with_query({"symbol": symbol})
InstrumentsUrl == INSTRUMENTS \o <<"?symbol=">>

\* lines 1044-1046, 1126-1127, 1148: what a helper does with the list its
\* lookup returned: instruments[0] / quotes[0], then place_order.
AfterLookup(t, c) ==
  IF c.ret = <<>> THEN Raise(t, c, "IndexError") ELSE PlaceOrderEnter(t, c)

\* lines 622-629, 641: the loop of get_instruments from its test to the next
\* request or to the return into the helper.  (MaxLookups bounds the
\* requests of one lookup.)
InstrumentsLoop(t, c) ==
  IF MorePages(c.url, c.pages)
    THEN IF NoSession(session) THEN Raise(t, c, "AttributeError")
         ELSE Len(c.reqs) < MaxLookups
                /\ Send(t, c, GetReq(c.url, access_token), "await_instruments")
    ELSE AfterLookup(t, c)

\* RobinhoodClient.place_limit_buy_order up to the first request of
\* get_instruments(symbol=symbol): the helper has no decorator of its own,
\* and the lookup's mutually_exclusive is satisfied by the one keyword.
PlaceLimitBuyOrderCall(t) ==
  /\ LET c == [NewCall("place_limit_buy_order") EXCEPT !.url = InstrumentsUrl] IN
       IF check_tokens(access_token, refresh_token)
         THEN Raise(t, c, "UnauthenticatedError")
       ELSE IF check_session THEN Raise(t, c, "UninitializedError")
       ELSE InstrumentsLoop(t, c)
  /\ UNCHANGED <<session, access_token, refresh_token, account_url, account_num,
                 device_token, store, nextGrant>>

\* get_instruments from the answer of a page on (lines 630-638), inside
\* place_limit_buy_order
InstrumentsResponse(t, resp) ==
  /\ call[t].pc = "await_instruments"
  /\ LET c == [Receive(call[t], resp) EXCEPT !.log = Append(@, resp)]
         got == [c EXCEPT !.ret = Accumulate(@, resp.body.items)]
     IN
       IF resp.fault THEN RaiseRequest(t, c, "GET", c.url, resp)
       ELSE IF resp.status # OK THEN RaiseAPI(t, c, resp)
       ELSE IF "results" \notin resp.body.keys THEN Raise(t, c, "KeyError")
       ELSE IF "next" \notin resp.body.keys THEN Raise(t, got, "KeyError")
       ELSE InstrumentsLoop(t, [got EXCEPT !.url = resp.body.next,
                                           !.pages = PagesLeft(@)])
  /\ UNCHANGED <<session, access_token, refresh_token, account_url, account_num,
                 device_token, store, nextGrant>>

\* The calls Python accepts: place_market_buy_order(self, symbol,
\* amount=None, quantity=None, ...).
MarketArgs ==
  {a \in [amount : ArgForms, quantity : ArgForms] :
     IsPositional(a.quantity) => IsPositional(a.amount)}

\* line 1126: get_quotes(symbols=[symbol])
MarketQuotesUrl == QUOTES \o <<"?symbols=">>

\* RobinhoodClient.place_market_buy_order up to the request of
\* get_quotes(symbols=[symbol]): mutually_exclusive("amount", "quantity") is
\* the helper's only decorator; the lookup's decorators follow.
PlaceMarketBuyOrderCall(t, args) ==
  /\ LET c == [NewCall("place_market_buy_order") EXCEPT
                 !.args = args, !.url = MarketQuotesUrl] IN
       IF mutually_exclusive(args) THEN Raise(t, c, "ValueError")
       ELSE IF check_tokens(access_token, refresh_token)
         THEN Raise(t, c, "UnauthenticatedError")
       ELSE IF check_session THEN Raise(t, c, "UninitializedError")
       ELSE Send(t, c, GetReq(MarketQuotesUrl, access_token), "await_quote")
  /\ UNCHANGED <<session, access_token, refresh_token, account_url, account_num,
                 device_token, store, nextGrant>>

\* get_quotes from the answer on (lines 725-734), inside
\* place_market_buy_order
MarketQuoteResponse(t, resp) ==
  /\ call[t].pc = "await_quote"
  /\ LET c == [Receive(call[t], resp) EXCEPT !.log = Append(@, resp)] IN
       IF resp.fault THEN RaiseRequest(t, c, "GET", MarketQuotesUrl, resp)
       ELSE IF resp.status # OK THEN RaiseAPI(t, c, resp)
       ELSE IF "results" \notin resp.body.keys THEN Raise(t, c, "KeyError")
       ELSE AfterLookup(t, [c EXCEPT !.ret = resp.body.items])
  /\ UNCHANGED <<session, access_token, refresh_token, account_url, account_num,
                 device_token, store, nextGrant>>

Next ==
  \E t \in SeqTasks :
    \/ AllIdle /\ Construct(t)
    \/ AllIdle /\ AEnter(t)
    \/ AllIdle /\ AExit(t)
    \/ AllIdle /\ \E ct \in ChallengeTypes : LoginCall(t, ct)
    \/ AllIdle /\ GetAccountCall(t)
    \/ AllIdle /\ \E args \in QuoteArgs : GetQuotesCall(t, args)
    \/ AllIdle /\ \E pages \in PageBudgets : GetPositionsCall(t, pages)
    \/ AllIdle /\ AddToWatchlistCall(t)
    \/ AllIdle /\ PlaceOrderCall(t)
    \/ AllIdle /\ PlaceLimitBuyOrderCall(t)
    \/ AllIdle /\ \E args \in MarketArgs : PlaceMarketBuyOrderCall(t, args)
    \/ AllIdle /\ LogoutCall(t)
    \/ AllIdle /\ RefreshCall(t)
    \/ AllIdle /\ Dump(t)
    \/ AllIdle /\ LoadCall(t)
    \/ \E resp \in Replies(AuthBodies, TRUE) : LoginResponse(t, resp)
    \/ \E resp \in Replies(AuthBodies, TRUE) : RespondResponse(t, resp)
    \/ \E resp \in Replies(AccountBodies, FALSE) : AccountResponse(t, resp)
    \/ \E resp \in Replies(QuoteBodies, FALSE) : QuotesResponse(t, resp)
    \/ \E resp \in PageReplies : PositionsResponse(t, resp)
    \/ \E resp \in WatchlistReplies : WatchlistResponse(t, resp)
    \/ \E resp \in PageReplies : InstrumentsResponse(t, resp)
    \/ \E resp \in QuoteReplies : MarketQuoteResponse(t, resp)
    \/ \E resp \in OrderReplies : OrderResponse(t, resp)
    \/ \E resp \in Replies(RevokeBodies, FALSE) : LogoutResponse(t, resp)
    \/ \E resp \in Replies(RevokeBodies, TRUE) : RefreshResponse(t, resp)

Spec == Init /\ [][Next]_vars

\* ------------------------------------------ login without a bound on its loop
\* login() followed for as long as it runs: the record of the call keeps its
\* latest request, answer and code only, and the nesting of login() frames
\* ends at the interpreter's recursion limit (MaxDepth frames here).
LoopLim == [reqs |-> 2, prompts |-> 2, depth |-> MaxDepth, window |-> 1]
LoginCallLoop(t, challenge_type) == LoginFrom(t, challenge_type, LoopLim)

NextLoop ==
  \E t \in SeqTasks :
    \/ AllIdle /\ AEnter(t)
    \/ AllIdle /\ \E ct \in ChallengeTypes : LoginCallLoop(t, ct)
    \/ \E resp \in Replies(AuthBodies, TRUE) : LoginResponse(t, resp)
    \/ \E resp \in Replies(AuthBodies, TRUE) : RespondResponse(t, resp)
    \/ \E resp \in Replies(AccountBodies, FALSE) : AccountResponse(t, resp)

\* Every request is sent with timeout=self._timeout: an awaited request is
\* answered, or fails, in the end.
Answered ==
  \E t \in SeqTasks :
    \/ \E resp \in Replies(AuthBodies, TRUE) : LoginResponse(t, resp)
    \/ \E resp \in Replies(AuthBodies, TRUE) : RespondResponse(t, resp)
    \/ \E resp \in Replies(AccountBodies, FALSE) : AccountResponse(t, resp)

SpecLoop == Init /\ [][NextLoop]_vars /\ WF_vars(Answered)

\* --------------------------------- login against a server that counts down
\* login() with the whole history of the call kept, against a server whose
\* challenges start with up to MaxCountdown attempts.
CountdownLim ==
  [reqs |-> MaxCountdown + MaxDepth + 3, prompts |-> MaxCountdown + MaxDepth + 1,
   depth |-> MaxDepth, window |-> 0]
\* (challenge_type at its default)
LoginCallCountdown(t) == LoginFrom(t, SMS, CountdownLim)

\* A challenge was passed earlier in the call c.
HasPassed(c) == \E i \in 1..Len(c.path) : c.path[i] = "passed"

\* What this server answers to a password grant of the call c: a fault,
\* tokens, mfa_required, an error, the id of a passed challenge, or, as long
\* as no challenge was passed in the call, a challenge.
GrantReplies(c) ==
  Faults
    \cup {Answer(OK, b) : b \in {EmptyBody, MfaBody, MfaNoTypeBody}}
    \cup {Answer(OK, PassedBody(cid)) : cid \in ChallengeIds}
    \cup {Answer(BAD_REQUEST, EmptyBody)}
    \cup (IF nextGrant <= MaxGrants THEN {Answer(OK, TokenBody(nextGrant))} ELSE {})
    \cup (IF HasPassed(c) THEN {}
          ELSE {Answer(BAD_REQUEST, ChallengeBody(cid, n)) :
                  cid \in ChallengeIds, n \in 0..MaxCountdown})

\* What it answers to a respond POST of the call c, sent for a challenge with
\* c.last.body.remaining_attempts attempts: a fault, an error, the id of the
\* challenge now passed, or a challenge with one attempt fewer.
RespondReplies(c) ==
  Faults
    \cup {Answer(OK, PassedBody(cid)) : cid \in ChallengeIds}
    \cup {Answer(s, EmptyBody) : s \in {OK, BAD_REQUEST}}
    \cup (IF c.last.body.remaining_attempts >= 1
          THEN {Answer(BAD_REQUEST,
                       ChallengeBody(cid, c.last.body.remaining_attempts - 1)) :
                  cid \in ChallengeIds}
          ELSE {})

NextCountdown ==
  \E t \in SeqTasks :
    \/ AllIdle /\ AEnter(t)
    \/ AllIdle /\ LoginCallCountdown(t)
    \/ \E resp \in GrantReplies(call[t]) : LoginResponse(t, resp)
    \/ \E resp \in RespondReplies(call[t]) : RespondResponse(t, resp)
    \/ \E resp \in Replies(AccountBodies, FALSE) : AccountResponse(t, resp)

AnsweredCountdown ==
  \E t \in SeqTasks :
    \/ \E resp \in GrantReplies(call[t]) : LoginResponse(t, resp)
    \/ \E resp \in RespondReplies(call[t]) : RespondResponse(t, resp)
    \/ \E resp \in Replies(AccountBodies, FALSE) : AccountResponse(t, resp)

SpecCountdown == Init /\ [][NextCountdown]_vars /\ WF_vars(AnsweredCountdown)

\* ------------------------------------------- leaving the scope during a call
\* One task logs in and fetches positions; another leaves the client's scope
\* at any moment, also while a request of the first is outstanding.
Closer == "t2"

NextClose ==
  \/ \E t \in SeqTasks :
       \/ AllIdle /\ AEnter(t)
       \/ AllIdle /\ LoginCall(t, SMS)
       \/ AllIdle /\ \E pages \in PageBudgets : GetPositionsCall(t, pages)
       \/ \E resp \in Replies(AuthBodies, TRUE) : LoginResponse(t, resp)
       \/ \E resp \in Replies(AuthBodies, TRUE) : RespondResponse(t, resp)
       \/ \E resp \in Replies(AccountBodies, FALSE) : AccountResponse(t, resp)
       \/ \E resp \in PageReplies : PositionsResponse(t, resp)
  \/ AExit(Closer)

SpecClose == Init /\ [][NextClose]_vars

\* ------------------------------------- login, refresh and logout interleaved
\* Two tasks call login(), refresh() and logout() on one client, each as soon
\* as its own previous call has ended, whatever the other task is waiting
\* for.  The account has neither a challenge nor a second factor: a grant
\* request is answered with a fault, an error status or the server's next
\* grant.
RaceGrantReplies ==
  Faults
    \cup {Answer(BAD_REQUEST, EmptyBody)}
    \cup (IF nextGrant <= MaxGrants
            THEN {Answer(OK, b) : b \in GrantBodies(nextGrant)}
            ELSE {})

NextRace ==
  \/ \E t \in SeqTasks : AllIdle /\ AEnter(t)
  \/ \E t \in Tasks :
       \/ Idle(t) /\ LoginCall(t, SMS)
       \/ Idle(t) /\ RefreshCall(t)
       \/ Idle(t) /\ LogoutCall(t)
       \/ \E resp \in RaceGrantReplies : LoginResponse(t, resp)
       \/ \E resp \in Replies(AccountBodies, FALSE) : AccountResponse(t, resp)
       \/ \E resp \in RaceGrantReplies : RefreshResponse(t, resp)
       \/ \E resp \in Replies(RevokeBodies, FALSE) : LogoutResponse(t, resp)

SpecRace == Init /\ [][NextRace]_vars

\* ================================================================== claims
\* Vocabulary of the properties below.
IsPasswordGrant(r) == r.method = "POST" /\ r.url = LOGIN /\ r.grant_type = "password"
IsRespond(r) == r.method = "POST" /\ \E c \in ChallengeIds : r.url = RespondUrl(c)
IsGetAccount(r) == r.method = "GET" /\ r.url = ACCOUNTS
Count(s, P(_)) == Cardinality({i \in 1..Len(s) : P(s[i])})

\* The operations decorated with check_tokens.
AuthOps ==
  {"logout", "refresh", "dump", "get_account", "get_quotes", "get_positions",
   "add_to_watchlist"}
\* The operations that end in a request (load through get_account).
RequestOps ==
  {"login", "logout", "refresh", "load", "get_account", "get_quotes",
   "get_positions", "add_to_watchlist"}
TokenAbsent(s) == s.access_token = None \/ s.refresh_token = None
\* A get_quotes call that names not exactly one alternative by keyword.
BadArgs(c) ==
  /\ c.op = "get_quotes"
  /\ Cardinality({k \in {"symbols", "instruments"} :
                    c.args[k] \in {"kw_none", "kw_val"}}) # 1

\* C1: in every reachable state access_token and refresh_token are both
\* present or both absent.
C1_TokensBothOrNeither == (access_token = None) <=> (refresh_token = None)

\* C2 as stated: every operation that requires authorization, entered while
\* a token is absent, raises UnauthenticatedError and sends no request.
C2_UnauthenticatedAlways ==
  \A t \in Tasks :
    LET c == call[t] IN
      c.op \in AuthOps /\ TokenAbsent(c.pre) =>
        c.pc = "done" /\ c.result = "UnauthenticatedError" /\ c.reqs = <<>>

\* C2 amended: every operation that requires authorization, entered while a
\* token is absent, sends no request and raises UnauthenticatedError, except
\* that a call rejected by the mutual-exclusion check raises ValueError.
C2_Unauthenticated ==
  \A t \in Tasks :
    LET c == call[t] IN
      c.op \in AuthOps /\ TokenAbsent(c.pre) =>
        /\ c.pc = "done"
        /\ c.reqs = <<>>
        /\ c.result = (IF BadArgs(c) THEN "ValueError" ELSE "UnauthenticatedError")

\* C2 witness: logout refused on a client that holds an access token but no
\* refresh token.
C2_Witness ==
  \E t \in Tasks :
    /\ call[t].op = "logout" /\ call[t].pc = "done"
    /\ call[t].pre.access_token # None /\ call[t].pre.refresh_token = None
    /\ call[t].result = "UnauthenticatedError"

C4_LoginThenOneGetAccount ==
  \A t \in Tasks :
    LET c == call[t]
        n == Len(c.reqs)
    IN
      c.op = "login" =>
        /\ c.pc = "await_account" =>
             /\ {"access_token", "refresh_token"} \subseteq c.last.body.keys
             /\ access_token = <<"Bearer ">> \o c.last.body.access_token
             /\ refresh_token = c.last.body.refresh_token
             /\ IsGetAccount(c.reqs[n])
             /\ c.reqs[n].auth = <<"Bearer ">> \o c.last.body.access_token
             /\ Count(c.reqs, IsGetAccount) = 1
        /\ c.pc = "done" /\ c.result = "ok" =>
             /\ n >= 2
             /\ c.path[n - 1] = "tokens"
             /\ IsGetAccount(c.reqs[n])
             /\ Count(c.reqs, IsGetAccount) = 1
             /\ access_token # None /\ refresh_token # None
             /\ c.reqs[n].auth = access_token
             /\ c.last.body.account_number \in Accounts
             /\ account_url = c.last.body.url
             /\ account_num = c.last.body.account_number

\* C4 witness: a login that returned after a passed challenge, on a client
\* that was logged in to another account before.
C4_Witness ==
  \E t \in Tasks :
    /\ call[t].op = "login" /\ call[t].pc = "done" /\ call[t].result = "ok"
    /\ call[t].path = <<"challenge", "passed", "tokens", "account">>
    /\ call[t].pre.account_num # None
    /\ call[t].pre.account_num # account_num

\* The answer of a respond call that exhausts the challenge: an error status
\* with {"challenge": {"remaining_attempts": 0}}.
Exhausted(resp) ==
  /\ ~resp.fault /\ resp.status # 200
  /\ "challenge" \in resp.body.keys /\ resp.body.remaining_attempts = 0

\* The requests of a login() that carry a code asked from the caller.
CarriesCode(r) == r.response # None \/ r.mfa_code \notin {None, <<"">>}

\* C5: when the latest answer to login() is the answer of a respond call and
\* exhausts the challenge, login() has ended with APIError, has sent nothing
\* and asked for no code after it, and a client that was logged out holds no
\* token.
C5_ExhaustedChallengeRaises ==
  \A t \in Tasks :
    LET c == call[t]
        k == Len(c.path)
    IN
      c.op = "login" /\ k >= 1 /\ Exhausted(c.last) /\ IsRespond(c.reqs[k]) =>
        /\ c.pc = "done"
        /\ c.result = "APIError"
        /\ Len(c.reqs) = k
        /\ Len(c.inputs) = Count(c.reqs, CarriesCode)
        /\ ~IsGetAccount(c.reqs[k])
        /\ c.pre.access_token = None /\ c.pre.refresh_token = None =>
             access_token = None /\ refresh_token = None

\* C5 witness: a logged-out client's login() answered by a challenge, whose
\* respond call is answered by the exhausted challenge.
C5_Witness ==
  \E t \in Tasks :
    /\ call[t].op = "login" /\ call[t].path = <<"challenge", "error">>
    /\ Exhausted(call[t].last)
    /\ call[t].pre.access_token = None /\ call[t].pre.refresh_token = None
    /\ call[t].result = "APIError"

\* C6: on the MFA path (the first password grant answered mfa_required, the
\* second with tokens) login() sends exactly two password-grant POSTs, the
\* second with the code the caller gave, then its get_account request, and
\* returns once that is answered with the account.
C6_MfaPath ==
  \A t \in Tasks :
    LET c == call[t] IN
      c.op = "login" /\ Len(c.path) >= 2 /\ c.path[1] = "mfa" /\ c.path[2] = "tokens" =>
        /\ Len(c.reqs) = 3
        /\ IsPasswordGrant(c.reqs[1]) /\ c.reqs[1].mfa_code = <<"">>
        /\ IsPasswordGrant(c.reqs[2])
        /\ c.inputs # <<>> /\ c.reqs[2].mfa_code = c.inputs[1]
        /\ c.reqs[2].mfa_code \in Codes
        /\ Count(c.reqs, IsPasswordGrant) = 2
        /\ Count(c.reqs, IsRespond) = 0
        /\ IsGetAccount(c.reqs[3])
        /\ access_token # None /\ refresh_token # None
        /\ c.pc = "done" /\ c.path[3] = "account" => c.result = "ok"

\* C6 witness: a login() that returned along the MFA path.
C6_Witness ==
  \E t \in Tasks :
    /\ call[t].op = "login" /\ call[t].pc = "done" /\ call[t].result = "ok"
    /\ call[t].path = <<"mfa", "tokens", "account">>

\* C7: right after a respond call is answered with success and an id, login()
\* has sent a password-grant POST whose challenge-response header is that id;
\* a respond POST goes to the URL of the challenge it answers; and the
\* requests of the path challenge, passed, tokens are password grant, respond,
\* password grant, get_account.
C7_PassedChallengeRetries ==
  \A t \in Tasks :
    LET c == call[t]
        k == Len(c.path)
    IN
      c.op = "login" /\ k >= 1 =>
        /\ c.path[k] = "passed" /\ IsRespond(c.reqs[k]) =>
             /\ Len(c.reqs) = k + 1
             /\ IsPasswordGrant(c.reqs[k + 1])
             /\ c.reqs[k + 1].chal = c.last.body.id
             /\ c.reqs[k + 1].chal \in ChallengeIds
        /\ c.path[k] = "challenge" =>
             /\ Len(c.reqs) = k + 1
             /\ c.reqs[k + 1].method = "POST"
             /\ c.reqs[k + 1].url = CHALLENGE \o c.last.body.cid \o <<"respond/">>
        /\ k >= 3 /\ SubSeq(c.path, 1, 3) = <<"challenge", "passed", "tokens">> =>
             /\ Len(c.reqs) = 4
             /\ IsPasswordGrant(c.reqs[1])
             /\ IsRespond(c.reqs[2])
             /\ IsPasswordGrant(c.reqs[3])
             /\ IsGetAccount(c.reqs[4])

\* C7 witness: a respond call was just answered with an id.
C7_Witness ==
  \E t \in Tasks :
    /\ call[t].op = "login" /\ call[t].pc = "await_login"
    /\ call[t].path = <<"challenge", "passed">>
    /\ call[t].last.body.id = <<"c2">>

\* C8: a logout() that sent its request has cleared both tokens if the answer
\* had status 200, and has left both as they were on entry if it ended with
\* APIError or RequestError.
C8_LogoutClearsIffRevoked ==
  \A t \in Tasks :
    LET c == call[t] IN
      c.op = "logout" /\ c.pc = "done" /\ c.reqs # <<>> =>
        IF ~c.last.fault /\ c.last.status = 200
          THEN c.result = "ok" /\ access_token = None /\ refresh_token = None
          ELSE /\ c.result = (IF c.last.fault THEN "RequestError" ELSE "APIError")
               /\ access_token = c.pre.access_token /\ access_token # None
               /\ refresh_token = c.pre.refresh_token /\ refresh_token # None

\* C8 witness: a logout() that the server accepted.
C8_Witness ==
  \E t \in Tasks :
    /\ call[t].op = "logout" /\ call[t].pc = "done" /\ call[t].result = "ok"
    /\ call[t].pre.access_token # None /\ access_token = None

\* C9: a refresh() never leaves the client with one token replaced and the
\* other not, and after a refresh() that returned the client holds neither of
\* the old tokens.
C9_RefreshAtomic ==
  \A t \in Tasks :
    LET c == call[t] IN
      c.op = "refresh" /\ c.reqs # <<>> =>
        /\ (access_token = c.pre.access_token) <=> (refresh_token = c.pre.refresh_token)
        /\ c.pc = "done" /\ c.result = "ok" =>
             /\ access_token # c.pre.access_token
             /\ refresh_token # c.pre.refresh_token

\* C10: a load() that directly follows a dump() that returned holds, from its
\* first step on, the tokens the client held before the dump(), and the store
\* holds them too.
C10_DumpLoadRoundTrip ==
  \A t \in Tasks :
    LET c == call[t] IN
      c.op = "load" /\ c.prev.op = "dump" /\ c.prev.result = "ok" =>
        /\ access_token = c.prev.pre.access_token
        /\ refresh_token = c.prev.pre.refresh_token
        /\ access_token # None /\ refresh_token # None
        /\ store.access_token = access_token
        /\ store.refresh_token = refresh_token
        /\ c.pc = "done" /\ c.path = <<"account">> => c.result = "ok"

\* C10 witness: dump() then load() on a client whose store held the tokens of
\* an earlier session.
C10_Witness ==
  \E t \in Tasks :
    /\ call[t].op = "load" /\ call[t].pc = "done" /\ call[t].result = "ok"
    /\ call[t].prev.op = "dump" /\ call[t].prev.result = "ok"
    /\ call[t].prev.pre.store.access_token # None
    /\ call[t].prev.pre.store.access_token # access_token

\* The results of the pages in log, one after the other.
RECURSIVE Flatten(_)
Flatten(log) ==
  IF log = <<>> THEN <<>>
  ELSE Flatten(SubSeq(log, 1, Len(log) - 1)) \o log[Len(log)].body.items
\* A page that the list endpoint can follow.
GoodPage(resp) ==
  ~resp.fault /\ resp.status = 200 /\ {"results", "next"} \subseteq resp.body.keys

\* C11: get_positions never sends more requests than the page budget it was
\* given (none when the budget is 0); every request after the first goes to
\* the next link of the page before it, which was not null; and when it
\* returns, it returns the results of the pages one after the other, in
\* order and with repetitions, having stopped at the first null next or when
\* the budget was used up.
C11_Pagination ==
  \A t \in Tasks :
    LET c == call[t]
        n == Len(c.reqs)
        k == Len(c.log)
    IN
      c.op = "get_positions" =>
        /\ ~c.pages0.none => n <= c.pages0.n
        /\ n >= 1 => c.reqs[1].url = POSITIONS \o <<"?nonzero=true">>
        /\ \A i \in 2..n :
             /\ GoodPage(c.log[i - 1])
             /\ c.log[i - 1].body.next # <<>>
             /\ c.reqs[i].method = "GET"
             /\ c.reqs[i].url = c.log[i - 1].body.next
        /\ c.pc = "await_positions" => n = k + 1
        /\ c.pc = "done" /\ c.result = "ok" =>
             /\ n = k
             /\ \A i \in 1..k : GoodPage(c.log[i])
             /\ c.ret = Flatten(c.log)
             /\ n = 0 => c.pages0 = [none |-> FALSE, n |-> 0]
             /\ n >= 1 => \/ c.log[n].body.next = <<>>
                           \/ (~c.pages0.none /\ n = c.pages0.n)

\* C11 witness: get_positions(pages=2) returned after two pages that share
\* an item, the second with a next link.
C11_Witness ==
  \E t \in Tasks :
    /\ call[t].op = "get_positions" /\ call[t].pc = "done"
    /\ call[t].result = "ok"
    /\ call[t].pages0 = [none |-> FALSE, n |-> 2]
    /\ Len(call[t].log) = 2
    /\ call[t].log[2].body.next # <<>>
    /\ call[t].ret = <<"p2", "p1", "p1">>

\* A URL of the fixed API origin.
InOrigin(url) == url # <<>> /\ url[1] = "https://api.robinhood.com"

\* C12: no request for a URL outside the fixed API origin reaches the
\* transport; the call that would send one fails with ValueError.
C12_NoForeignRequest ==
  \A t \in Tasks :
    LET c == call[t] IN
      /\ \A i \in 1..Len(c.reqs) : InOrigin(c.reqs[i].url)
      /\ c.op = "get_positions" /\ c.log # <<>>
           /\ "next" \in c.log[Len(c.log)].body.keys
           /\ c.log[Len(c.log)].body.next # <<>>
           /\ ~InOrigin(c.log[Len(c.log)].body.next)
           /\ (c.pages0.none \/ Len(c.log) < c.pages0.n)
           => c.pc = "done" /\ c.result = "ValueError"

\* The status each endpoint expects.
ExpectedStatus(c) ==
  IF c.op = "add_to_watchlist" THEN 201
  ELSE IF c.path # <<>> /\ c.reqs[Len(c.path)].method = "POST"
            /\ c.reqs[Len(c.path)].url = ORDERS
    THEN 201
  ELSE 200

C14_FaultRaisesRequestError ==
  \A t \in Tasks :
    LET c == call[t]
        k == Len(c.path)
    IN
      k >= 1 /\ c.last.fault =>
        /\ c.pc = "done"
        /\ c.result = "RequestError"
        /\ Len(c.reqs) = k
        /\ c.err.method = c.reqs[k].method
        /\ c.err.url = c.reqs[k].url
        /\ c.err.cause = c.last.cause
        /\ c.err.cause \in {"ClientError", "TimeoutError"}

\* C14 witness: the request for the second page of get_positions timed out.
C14_Witness ==
  \E t \in Tasks :
    /\ call[t].op = "get_positions" /\ call[t].pc = "done"
    /\ Len(call[t].reqs) = 2
    /\ call[t].last.fault /\ call[t].last.cause = "TimeoutError"
    /\ call[t].result = "RequestError"
    /\ call[t].err.url = <<"https://api.robinhood.com", "next/">>

\* The alternatives a get_quotes call gives a value for, by keyword or by
\* position.
Given(c) == {k \in {"symbols", "instruments"} : c.args[k] \in {"kw_val", "pos_val"}}

\* C15: a get_quotes call given neither or both of symbols and instruments
\* raises ValueError and sends no request.
C15_BothOrNeitherRaises ==
  \A t \in Tasks :
    LET c == call[t] IN
      c.op = "get_quotes" /\ Cardinality(Given(c)) # 1 =>
        c.pc = "done" /\ c.result = "ValueError" /\ c.reqs = <<>>

\* C16: the client's device_token and the one in the session file are equal
\* and never change, whatever is called, a later construction on the same
\* session file included.
C16_DeviceTokenStable ==
  /\ [](device_token = store.device_token)
  /\ [][/\ device_token' = device_token
        /\ store'.device_token = store.device_token]_vars

\* C16 witness: a client constructed on a session file that holds the tokens
\* an earlier client dumped.
C16_Witness ==
  \E t \in Tasks :
    /\ call[t].op = "__init__" /\ call[t].pc = "done"
    /\ call[t].pre.access_token # <<>>
    /\ store.access_token # <<>>
    /\ access_token = <<>>
    /\ device_token = call[t].pre.store.device_token

\* C17: a login() that started on a logged-out client and ended by raising
\* has left both tokens absent.
C17_FailedLoginLeavesNoTokens ==
  \A t \in Tasks :
    LET c == call[t] IN
      /\ c.op = "login" /\ c.pc = "done" /\ c.result # "ok"
      /\ c.pre.access_token = <<>> /\ c.pre.refresh_token = <<>>
      => access_token = <<>> /\ refresh_token = <<>>

\* The errors of the taxonomy (InvalidArgument is ValueError).
Taxonomy ==
  {"UninitializedError", "UnauthenticatedError", "RequestError", "APIError",
   "ValueError"}

\* C18: every call that has ended has returned or raised an error of the
\* taxonomy.
C18_OnlyTaxonomyErrors ==
  \A t \in Tasks :
    call[t].pc = "done" => call[t].result \in Taxonomy \cup {"ok"}

\* The raw access tokens the server grants, and each with the prefix applied
\* exactly once.
GrantedAccess == {<<"access-", ToString(g)>> : g \in 1..MaxGrants}
PrefixedOnce == {<<"Bearer ">> \o raw : raw \in GrantedAccess}
\* The operations whose requests go out with an Authorization header.
HeaderOps ==
  {"get_account", "get_quotes", "get_positions", "add_to_watchlist", "place_order",
   "place_limit_buy_order", "place_market_buy_order"}

\* C19: the access token the client or the session file holds is "Bearer "
\* followed by a raw token the server granted; every request of an endpoint,
\* and the get_account request of login() and load(), carries as its
\* Authorization header the token the client held when the endpoint was
\* entered: the one on entry for an endpoint call, the one read from the
\* session file for load(), the one just stored for login().
C19_BearerOnce ==
  /\ access_token \in {<<>>} \cup PrefixedOnce
  /\ store.access_token \in {<<>>} \cup PrefixedOnce
  /\ \A t \in Tasks :
       LET c == call[t] IN
         \A i \in 1..Len(c.reqs) :
           LET r == c.reqs[i] IN
             /\ c.op \in HeaderOps \/ IsGetAccount(r) =>
                  /\ r.auth \in PrefixedOnce
                  /\ r.auth = (IF c.op = "load" THEN c.pre.store.access_token
                               ELSE IF c.op = "login" THEN access_token
                               ELSE c.pre.access_token)
             /\ r.auth # <<>> => c.op \in HeaderOps \/ IsGetAccount(r)

\* C19 witness: after dump() and load(), the get_account request of load()
\* carries the token of the server's second grant.
C19_Witness ==
  \E t \in Tasks :
    /\ call[t].op = "load" /\ call[t].prev.op = "dump"
    /\ call[t].reqs # <<>>
    /\ call[t].reqs[1].auth = <<"Bearer ", "access-", "2">>

\* Entering the scope leaves an open session, the one the client had when it
\* had one; leaving it leaves no session, with UninitializedError when there
\* was none.
ScopeEnds(c) ==
  /\ c.op = "__aenter__" =>
       /\ c.pc = "done" /\ c.result = "ok"
       /\ session = <<"open">>
       /\ c.pre.session # <<>> => session = c.pre.session
  /\ c.op = "__aexit__" =>
       /\ c.pc = "done"
       /\ session = <<>>
       /\ c.result = (IF c.pre.session = <<>> THEN "UninitializedError" ELSE "ok")

NoNextPage(resp) ==
  ~resp.fault /\ resp.status = 200
    /\ "results" \in resp.body.keys /\ "next" \notin resp.body.keys

\* C21: a get_positions call whose latest page was a success response
\* without a next field has ended normally, and returns the results of all
\* its pages, that page's included.
C21_AbsentNextEndsTraversal ==
  \A t \in Tasks :
    LET c == call[t] IN
      (c.op = "get_positions" /\ c.pc = "done" /\ Len(c.log) >= 1
         /\ NoNextPage(c.log[Len(c.log)])) =>
        c.result = "ok" /\ c.ret = Flatten(c.log)

IsOrderPost(r) == r.method = "POST" /\ r.url = ORDERS
IsPost(r) == r.method = "POST"
OrderHelpers == {"place_limit_buy_order", "place_market_buy_order"}

\* C25: no operation sends a request after one of its requests failed: every
\* answer that was followed by a further request was neither a transport
\* fault nor an error status (an error status that holds a challenge with
\* attempts left is not raised by login(), which answers the challenge); a
\* call that ended with APIError or RequestError, or whose latest answer is a
\* fault, has sent nothing after the request that failed; a logout, refresh
\* or place_order call sends at most one POST, and no call sends more than
\* one order POST.
C25_NoRetry ==
  \A t \in Tasks :
    LET c == call[t]
        k == Len(c.path)
        n == Len(c.reqs)
    IN
      /\ \A i \in 1..(k - 1) : c.path[i] \notin {"fault", "error"}
      /\ c.result \in {"APIError", "RequestError"} =>
           c.pc = "done" /\ k >= 1 /\ n = k
      /\ k >= 1 /\ c.last.fault =>
           c.pc = "done" /\ c.result = "RequestError" /\ n = k
      /\ c.op \in {"logout", "refresh", "place_order"} =>
           n <= 1 /\ Count(c.reqs, IsPost) = n
      /\ Count(c.reqs, IsOrderPost) <= 1

\* C25 witness: a place_order call whose order POST was answered with an
\* error status has raised APIError after that one POST.
C25_Witness ==
  \E t \in Tasks :
    /\ call[t].op = "place_order" /\ call[t].pc = "done"
    /\ call[t].result = "APIError"
    /\ call[t].last.status = 400
    /\ Len(call[t].reqs) = 1 /\ IsOrderPost(call[t].reqs[1])

\* The request an order helper's lookup starts with.
LookupStart(op) ==
  IF op = "place_limit_buy_order"
    THEN BASE \o <<"instruments/", "?symbol=">>
    ELSE BASE \o <<"quotes/", "?symbols=">>
\* An answer with which the lookup of the helper op goes on or returns.
LookupPage(op, resp) ==
  /\ ~resp.fault /\ resp.status = 200 /\ "results" \in resp.body.keys
  /\ op = "place_limit_buy_order" => "next" \in resp.body.keys

\* C26: in a place_limit_buy_order or place_market_buy_order call the first
\* request is the GET of the lookup (get_instruments or get_quotes); an order
\* POST is the last request of the call, comes after at least one lookup
\* request, every lookup request before it was answered with a success page
\* and the lookup had come to its end; it carries the client's account_url.
\* When an answer of the lookup is a fault, an error status or a body the
\* lookup cannot read, no order POST is sent.  A call that returned sent
\* exactly one order POST and returns the id of its answer.
C26_LookupThenOneOrder ==
  \A t \in Tasks :
    LET c == call[t]
        n == Len(c.reqs)
        k == Len(c.log)
    IN
      c.op \in OrderHelpers =>
        /\ n >= 1 => c.reqs[1].method = "GET" /\ c.reqs[1].url = LookupStart(c.op)
        /\ \A i \in 1..n :
             IsOrderPost(c.reqs[i]) =>
               /\ i = n /\ i >= 2 /\ k = i - 1
               /\ \A j \in 1..k :
                    LookupPage(c.op, c.log[j]) /\ c.reqs[j].method = "GET"
               /\ c.op = "place_limit_buy_order" => c.log[k].body.next = <<>>
               /\ c.reqs[i].account = account_url
               /\ c.reqs[i].account = c.pre.account_url
        /\ (\E j \in 1..k : ~LookupPage(c.op, c.log[j])) =>
             Count(c.reqs, IsOrderPost) = 0 /\ c.pc = "done" /\ c.result # "ok"
        /\ c.pc = "done" /\ c.result = "ok" =>
             /\ Count(c.reqs, IsOrderPost) = 1
             /\ c.last.status = 201
             /\ c.ret = c.last.body.id

\* C26 witness: place_limit_buy_order on a client that holds an account URL
\* returned after a lookup of two pages and one order POST.
C26_Witness ==
  \E t \in Tasks :
    /\ call[t].op = "place_limit_buy_order" /\ call[t].pc = "done"
    /\ call[t].result = "ok"
    /\ account_url # <<>>
    /\ Len(call[t].reqs) = 3
    /\ IsOrderPost(call[t].reqs[3])
    /\ call[t].reqs[3].account = account_url

\* C30: when the request of refresh() failed (a transport fault or a status
\* other than 200, so that refresh() raises RequestError or APIError), and
\* whenever refresh() ended with one of these two errors, access_token and
\* refresh_token are the values they had before the call.
C30_FailedRefreshKeepsTokens ==
  \A t \in Tasks :
    LET c == call[t] IN
      (c.op = "refresh"
         /\ \/ c.result \in {"APIError", "RequestError"}
            \/ Len(c.path) >= 1 /\ (c.last.fault \/ c.last.status # 200)) =>
        /\ c.pc = "done"
        /\ c.result \in {"APIError", "RequestError"}
        /\ access_token = c.pre.access_token
        /\ refresh_token = c.pre.refresh_token

\* C30 witness: a refresh() on a logged-in client was answered with an error
\* status and a body that holds a token pair; it raised APIError.
C30_Witness ==
  \E t \in Tasks :
    /\ call[t].op = "refresh" /\ call[t].pc = "done"
    /\ call[t].result = "APIError"
    /\ {"access_token", "refresh_token"} \subseteq call[t].last.body.keys
    /\ call[t].pre.access_token # <<>>
    /\ access_token = call[t].pre.access_token

\* C27: the session file differs from what it was when the current call
\* began only after a constructor that found it empty, which wrote the new
\* device token and nothing else, and after a dump() that was not rejected,
\* which wrote the client's two tokens and nothing else; during and after
\* every other call (login, logout, refresh, load, the endpoint calls,
\* entering and leaving the scope), after a constructor that found a device
\* token in the file and after a rejected dump() it is unchanged.
C27_StoreWrittenOnlyByInitAndDump ==
  \A t \in SeqTasks :
    LET c == call[t] IN
      /\ c.op = "__init__" =>
           IF c.pre.store.device_token = <<>>
             THEN store = [device_token |-> device_token, access_token |-> <<>>,
                           refresh_token |-> <<>>]
                    /\ device_token # <<>>
             ELSE store = c.pre.store
      /\ c.op = "dump" =>
           IF c.result = "ok"
             THEN store = [device_token |-> c.pre.store.device_token,
                           access_token |-> c.pre.access_token,
                           refresh_token |-> c.pre.refresh_token]
             ELSE c.result = "UnauthenticatedError" /\ store = c.pre.store
      /\ c.op \notin {"__init__", "dump", "none"} => store = c.pre.store

\* C27 witness: a dump() on a logged-in client has written the client's
\* tokens over the tokens of an earlier session, and left the device token.
C27_Witness ==
  \E t \in SeqTasks :
    /\ call[t].op = "dump" /\ call[t].pc = "done" /\ call[t].result = "ok"
    /\ call[t].pre.store.access_token # <<>>
    /\ store # call[t].pre.store
    /\ store.access_token = access_token
    /\ store.device_token = call[t].pre.store.device_token

\* C28: account_url and account_number differ from what they were when the
\* current call began only when that call is a login() or a load() that has
\* returned; a login() or load() that has returned sent exactly one
\* get_account request, as its last request, and the two values are the url
\* and the account_number of that request's answer; no login() or load()
\* sends more than one get_account request.  During and after every other
\* call (refresh, logout, dump, the endpoint calls, entering and leaving the
\* scope) both values are what they were when the call began; a newly
\* constructed client holds neither.
C28_AccountSetOnlyByLoginAndLoad ==
  \A t \in SeqTasks :
    LET c == call[t]
        n == Len(c.reqs)
    IN
      /\ c.op \in {"login", "load"} =>
           /\ Count(c.reqs, IsGetAccount) <= 1
           /\ IF c.pc = "done" /\ c.result = "ok"
                THEN /\ Count(c.reqs, IsGetAccount) = 1
                     /\ IsGetAccount(c.reqs[n])
                     /\ account_url = c.last.body.url
                     /\ account_num = c.last.body.account_number
                     /\ account_url # <<>> /\ account_num # <<>>
                ELSE /\ account_url = c.pre.account_url
                     /\ account_num = c.pre.account_num
      /\ c.op = "__init__" => account_url = <<>> /\ account_num = <<>>
      /\ c.op \notin {"login", "load", "__init__", "none"} =>
           /\ account_url = c.pre.account_url
           /\ account_num = c.pre.account_num

\* C28 witness: a load() on a client that held the account of an earlier
\* login returned with another account, that of its get_account call.
C28_Witness ==
  \E t \in SeqTasks :
    /\ call[t].op = "load" /\ call[t].pc = "done" /\ call[t].result = "ok"
    /\ call[t].pre.account_num # <<>>
    /\ account_num # call[t].pre.account_num
    /\ account_num = call[t].last.body.account_number

\* C23: every login() call comes to an end, whatever the server answers:
\* a login() that is running has, some time later, returned or raised.
C23_LoginTerminates ==
  \A t \in SeqTasks :
    (call[t].op = "login" /\ call[t].pc # "done") ~> (call[t].pc = "done")

\* A password-grant POST that carries an MFA code.
CarriesMfaCode(r) == r.mfa_code \notin {<<>>, <<"">>}

\* What C24 says of a login() call at every moment.
C24_OneCodePerRespond ==
  \A t \in SeqTasks :
    LET c == call[t]
        n == Len(c.reqs)
        R == Count(c.reqs, IsRespond)
        M == Count(c.reqs, CarriesMfaCode)
    IN
      c.op = "login" =>
        /\ \/ Len(c.inputs) = R + M
           \/ c.result = "RecursionError" /\ Len(c.inputs) = R + M + 1
        /\ c.pc = "await_respond" =>
             /\ IsRespond(c.reqs[n])
             /\ "challenge" \in c.last.body.keys
             /\ c.last.body.remaining_attempts > 0
             /\ c.reqs[n].url = CHALLENGE \o c.last.body.cid \o <<"respond/">>
             /\ c.reqs[n].response = c.inputs[Len(c.inputs)]
             /\ R = c.first - c.last.body.remaining_attempts + 1
        /\ R <= c.first

\* C24: against a server that answers a respond POST with a fault, an error,
\* the id of the passed challenge or a challenge with one attempt fewer, and
\* that issues no challenge after a passed one, login() asks the caller for
\* one code per respond POST (and one per MFA request), sends every respond
\* POST, with the code just obtained, to the challenge id of the answer
\* before it, sends no more respond POSTs than the first challenge of the
\* call had attempts, and comes to an end.
C24_CountdownTerminates ==
  /\ []C24_OneCodePerRespond
  /\ \A t \in SeqTasks :
       (call[t].op = "login" /\ call[t].pc # "done") ~> (call[t].pc = "done")

\* C24 witness: a login() challenged with three attempts sent three respond
\* POSTs, each answered with one attempt fewer, and ended with the error of
\* the exhausted challenge.
C24_Witness ==
  \E t \in SeqTasks :
    /\ call[t].op = "login" /\ call[t].pc = "done"
    /\ call[t].first = 3
    /\ Count(call[t].reqs, IsRespond) = 3
    /\ Len(call[t].inputs) = 3
    /\ call[t].last.body.remaining_attempts = 0
    /\ call[t].result = "APIError"

\* C29: a get_positions call under which the client's scope was left sends
\* no request after that moment and does not end with the unclassified error
\* of a request made on the released session; it ends with RequestError or
\* with the outcome of the request that was outstanding.
C29_CloseWhileOutstanding ==
  \A t \in Tasks :
    LET c == call[t] IN
      c.op = "get_positions" /\ c.closed_at >= 0 =>
        /\ Len(c.reqs) = c.closed_at
        /\ c.result # "AttributeError"

\* C31: a load() call that began on a client holding both tokens and its
\* account, and ended by raising, has left access_token, refresh_token, account_url and
\* account_number as they were when it began: the client is still logged in.
C31_FailedLoadKeepsState ==
  \A t \in Tasks :
    LET c == call[t] IN
      (c.op = "load" /\ c.pc = "done" /\ c.result # "ok"
         /\ c.pre.access_token # <<>> /\ c.pre.refresh_token # <<>>
         /\ c.pre.account_url # <<>>) =>
        /\ access_token = c.pre.access_token
        /\ refresh_token = c.pre.refresh_token
        /\ account_url = c.pre.account_url
        /\ account_num = c.pre.account_num

\* C32: whenever both tokens are present and no login() or load() call is in
\* progress, account_url and account_number are populated, and no order
\* request carries a missing account.
C32_TokensImplyAccount ==
  /\ (access_token # None /\ refresh_token # None
        /\ \A t \in Tasks : call[t].op \in {"login", "load"} => call[t].pc = "done") =>
       (account_url # None /\ account_num # None)
  /\ \A t \in Tasks :
       \A i \in 1..Len(call[t].reqs) :
         IsOrderPost(call[t].reqs[i]) => call[t].reqs[i].account # None

\* C33: every password-grant request of one login() call carries the
\* challenge_type the caller passed, and once a grant of the call presented a
\* challenge-response id every later grant of the call presents one too.
C33_RetriesKeepArguments ==
  \A t \in Tasks :
    LET c == call[t] IN
      c.op = "login" =>
        \A i \in 1..Len(c.reqs) :
          IsPasswordGrant(c.reqs[i]) =>
            /\ c.reqs[i].challenge_type = c.orig_type
            /\ \A j \in 1..(i - 1) :
                 (IsPasswordGrant(c.reqs[j]) /\ c.reqs[j].chal # EmptyStr) =>
                   c.reqs[i].chal # EmptyStr

\* C34: every request that carries an Authorization header is sent to a URL
\* of the fixed API origin, the requests for a next link during pagination
\* included.
C34_AuthorizationStaysInOrigin ==
  \A t \in Tasks :
    \A i \in 1..Len(call[t].reqs) :
      call[t].reqs[i].auth # None => InOrigin(call[t].reqs[i].url)

\* The methods decorated with mutually_exclusive, and the number of a call's
\* alternatives supplied with a value that is not None.
ExclusiveOps == {"get_quotes", "place_market_buy_order"}
Supplied(c) == Cardinality({k \in DOMAIN c.args : NotNone(c.args[k])})

\* C37: a call of a method guarded by the mutual-exclusion check ends with
\* ValueError exactly when the number of alternatives supplied with a value
\* that is not None is not one, by position or by keyword, an explicit None
\* counting as not supplied; a call with exactly one such alternative on an
\* open, logged-in client has sent its request.
C37_RejectedIffNotExactlyOne ==
  \A t \in Tasks :
    LET c == call[t] IN
      c.op \in ExclusiveOps =>
        /\ (c.result = "ValueError") <=> (Supplied(c) # 1)
        /\ (Supplied(c) = 1
              /\ c.result \notin {"UnauthenticatedError", "UninitializedError"}) =>
             c.reqs # <<>>

\* C35: under any interleaving of login(), refresh() and logout() calls on
\* one client, the access_token and the refresh_token the client holds were
\* granted by one and the same answer of the server.
C35_TokensFromOneResponse ==
  (access_token # None /\ refresh_token # None) =>
    \E g \in 1..MaxGrants :
      access_token = Bearer(RawAccess(g)) /\ refresh_token = RawRefresh(g)

\* C36: when a refresh() call has returned and a logout() call has returned,
\* and the logout() began while the refresh() was waiting for its answer and
\* returned while the refresh() was still waiting, the client holds no token.
C36_LogoutWinsOverRefresh ==
  \A t, u \in Tasks :
    (/\ call[t].op = "refresh" /\ call[t].pc = "done" /\ call[t].race = 2
     /\ call[t].result = "ok"
     /\ call[u].op = "logout" /\ call[u].pc = "done" /\ call[u].result = "ok") =>
      (access_token = None /\ refresh_token = None)

====
